---- MODULE Spec2Model ----
(***************************************************************************)
(* statbot crawler pipeline (statbot/crawler.py) and the history tracker   *)
(* (statbot/message_history.py).                                           *)
(*                                                                         *)
(* One HistoryCrawler instance: the producer coroutine, the consumer       *)
(* coroutine, the three channel hooks, the SQL store it writes to and the  *)
(* remote channels it reads from.  Every action is one run of a coroutine  *)
(* from one suspension point (await) to the next.                          *)
(***************************************************************************)
EXTENDS Integers, Sequences, FiniteSets, TLC

(* ---- bounds of the model ---- *)
\* largest snowflake (event ID / time stamp) of the model
MaxId == 3
\* the time at which the module is first imported
StartNow == 2
\* config['crawler']['queue-size']
QueueSize == 2
\* config['crawler']['batch-size']
BatchSize == 2
\* how often the process dies and is started again
MaxCrash == 1
\* largest point of the key space of a MessageHistory
MaxPoint == 3
\* most ranges of a MessageHistory
MaxRanges == 2

\* the text channels of the tracked guilds, in guild.text_channels order
Channels == <<"a", "b">>
Sources == {Channels[i] : i \in 1..Len(Channels)}
\* the channels that are created, edited and deleted while the model runs;
\* the others exist, readable, throughout
Dynamic == {"a"}
\* the channels messages are posted to; the others stay empty
Posting == {"a"}
Ids == 1..MaxId

\* Python's None where an integer cursor is expected
PyNone == -1
\* discord.utils.snowflake_time drops the bits below the time stamp: an ID
\* is TimeUnit * milliseconds + low bits.  The channels of this model hold
\* at most one event per time stamp.
TimeUnit == 1

VARIABLES
    NOW_ID,        \* module global, set once per import
    chan,          \* remote: channel state: none | ok | hidden | deleted | gone
    remote,        \* remote: the IDs of the messages of each channel
    crawl,         \* store: channel_crawl rows, PyNone when there is no row
    stored,        \* store: the IDs of the message rows of each channel
    progress,      \* self.progress: dict as a sequence of <<source, last_id>>
    queue,         \* self.queue: the items put and not yet got
    unfinished,    \* self.queue's count of items put and not yet task_done
    ppc,           \* producer: init | read | put | sleep
    snap,          \* producer: tuple(self.progress.items()) of the round
    idx,           \* producer: position of the for loop in snap
    done,          \* producer: local done
    pending,       \* producer: the item of the suspended queue.put
    delay,         \* producer: local delay of the last finished round
    cpc,           \* consumer: get | trans
    citem,         \* consumer: the item got from the queue
    readEv,        \* history: per channel, the IDs read() has returned
    readsSinceGet, \* history: successful reads since the last queue.get
    lastFail,      \* history: per channel, the last_id of a read that raised
                   \*          and has not been followed by another read
    roundKind,     \* history: the reads of the current or last round so far:
                   \*          "-" | "empty" | "allnone" | "mixed"
    ranges,        \* MessageHistory.ranges: sorted, disjoint <<min, max>>
    first,         \* MessageHistory.first, PyNone when unset
    start,         \* the argument of find_first_hole
    hole,          \* what find_first_hole returned, NotRun before the call
    crashes        \* history: how often the process has died

storeVars == <<crawl, stored>>
remoteVars == <<chan, remote>>
prodVars == <<ppc, snap, idx, done, pending, delay>>
consVars == <<cpc, citem>>
ghostVars == <<readEv, readsSinceGet, lastFail, roundKind>>
vars == <<NOW_ID, chan, remote, crawl, stored, progress, queue, unfinished,
          ppc, snap, idx, done, pending, delay, cpc, citem,
          readEv, readsSinceGet, lastFail, roundKind, ranges, first, start,
          hole, crashes>>
holeVars == <<ranges, first, start, hole>>
crawlerVars == <<NOW_ID, chan, remote, crawl, stored, progress, queue,
                 unfinished, ppc, snap, idx, done, pending, delay, cpc, citem,
                 readEv, readsSinceGet, lastFail, roundKind>>

NoItem == [source |-> "-", events |-> {}, last_id |-> 0]
NoFail == PyNone - 1
NotRun == PyNone - 2

(* ---- integers and sets ---- *)
SetMax(S) == CHOOSE x \in S : \A y \in S : y <= x
SetMin(S) == CHOOSE x \in S : \A y \in S : x <= y

RECURSIVE Lowest(_, _)
\* the n smallest elements of S
Lowest(S, n) ==
    IF n = 0 \/ S = {} THEN {}
    ELSE {SetMin(S)} \cup Lowest(S \ {SetMin(S)}, n - 1)

(* ---- the dict self.progress ---- *)
\* source in self.progress
Has(p, c) == \E i \in 1..Len(p) : p[i][1] = c
\* self.progress[source]
Get(p, c) == p[CHOOSE i \in 1..Len(p) : p[i][1] = c][2]
\* self.progress[source] = v: a new key goes last, an old one keeps its place
DictSet(p, c, v) ==
    IF Has(p, c)
    THEN [i \in 1..Len(p) |-> IF p[i][1] = c THEN <<c, v>> ELSE p[i]]
    ELSE Append(p, <<c, v>>)
\* self.progress.pop(source, None)
DictPop(p, c) == SelectSeq(p, LAMBDA e : e[1] # c)

(* ---- the store (statbot/sql.py) ---- *)
\* lookup_channel_crawl: the row's last_id, None without a row
LookupCrawl(cr, c) == cr[c]
\* insert_channel_crawl raises on a second row for the channel
InsertRaises(cr, c) == cr[c] # PyNone
InsertCrawl(cr, c, v) == [cr EXCEPT ![c] = v]
\* update_channel_crawl: an UPDATE, which changes no row when there is none
UpdateCrawl(cr, c, v) == IF cr[c] = PyNone THEN cr ELSE [cr EXCEPT ![c] = v]
\* delete_channel_crawl
DeleteCrawl(cr, c) == [cr EXCEPT ![c] = PyNone]
\* insert_message for each message of the page
InsertMessages(st, c, events) == [st EXCEPT ![c] = @ \cup events]

(* ---- AbstractCrawler ---- *)
\* faulty variant: the ID of the oldest object of the page
GetLastId_Oldest(events) == SetMin(events)
\* get_last_id
GetLastId(events) == SetMax(events)

\* faulty variant: asyncio.Queue(0), which is never full
QueueFull_Never(q) == FALSE
\* faulty variant: a queue that takes one item more than its size
QueueFull_OneMore(q) == Len(q) > QueueSize
\* asyncio.Queue.full()
QueueFull(q) == Len(q) >= QueueSize

\* discord.utils.snowflake_time
SnowflakeTime(id) == id \div TimeUnit

\* HistoryCrawler.read: channel.history(after=last, limit=limit).flatten(),
\* None (the empty set here) when there are no messages
Read(c, last_id) ==
    Lowest({e \in remote[c] : SnowflakeTime(e) > SnowflakeTime(last_id)},
           BatchSize)

\* HistoryCrawler._channel_ok
ChannelOk(st) == st = "ok"

\* the hooks are in client.hooks from init on
HooksSet == ppc # "init"

(* ---- AbstractCrawler.producer ---- *)
\* queue.put_nowait, the tail of queue.put
Put(item) ==
    /\ queue' = Append(queue, item)
    /\ unfinished' = unfinished + 1

\* top of the while loop up to the first await: the snapshot of the dict
\* and the call of read for its first pair, or the sleep of an empty round
StartRound(p) ==
    /\ done' = FALSE
    /\ pending' = NoItem
    /\ roundKind' = IF p = <<>> THEN "empty" ELSE "allnone"
    /\ IF p = <<>>
       THEN ppc' = "sleep" /\ snap' = <<>> /\ idx' = 0 /\ delay' = "yield"
       ELSE ppc' = "read" /\ snap' = p /\ idx' = 1 /\ delay' = "-"

\* faulty variant: the for loop over the live dict, by position
EndIteration_Live(d) ==
    /\ pending' = NoItem
    /\ IF idx < Len(progress)
       THEN /\ ppc' = "read" /\ idx' = idx + 1
            /\ done' = d
            /\ snap' = progress
            /\ UNCHANGED delay
       ELSE /\ ppc' = "sleep" /\ idx' = 0 /\ snap' = <<>>
            /\ done' = FALSE
            /\ delay' = IF d THEN "long" ELSE "yield"

\* end of one pass of the for loop: the next pair's read, or after the last
\* pair the choice of the delay and the sleep
EndIteration(d) ==
    /\ pending' = NoItem
    /\ IF idx < Len(snap)
       THEN /\ ppc' = "read" /\ idx' = idx + 1
            /\ done' = d
            /\ UNCHANGED <<snap, delay>>
       ELSE /\ ppc' = "sleep" /\ idx' = 0 /\ snap' = <<>>
            /\ done' = FALSE
            /\ delay' = IF d THEN "long" ELSE "yield"

RECURSIVE InitFrom_Resets(_, _, _)
\* faulty variant: init starts every readable channel at 0, whatever its row
InitFrom_Resets(i, p, cr) ==
    IF i > Len(Channels) THEN <<p, cr>>
    ELSE LET c == Channels[i] IN
         IF chan[c] = "ok"
         THEN InitFrom_Resets(i + 1, DictSet(p, c, 0), InsertCrawl(cr, c, 0))
         ELSE InitFrom_Resets(i + 1, p, cr)

RECURSIVE InitFrom(_, _, _)
\* HistoryCrawler.init: the loop over the text channels, from the i-th on,
\* gives <<progress, channel_crawl>>
InitFrom(i, p, cr) ==
    IF i > Len(Channels) THEN <<p, cr>>
    ELSE LET c == Channels[i] IN
         IF chan[c] = "ok"
         THEN LET last_id == LookupCrawl(cr, c)
                  cr2 == IF last_id = PyNone THEN InsertCrawl(cr, c, 0) ELSE cr
                  v == IF last_id = PyNone \/ last_id = 0 THEN 0 ELSE last_id
              IN InitFrom(i + 1, DictSet(p, c, v), cr2)
         ELSE InitFrom(i + 1, p, cr)

\* wait_until_ready, init, and the first round up to its first await
ProducerInit ==
    /\ ppc = "init"
    /\ LET r == InitFrom(1, progress, crawl) IN
       /\ progress' = r[1]
       /\ crawl' = r[2]
       /\ StartRound(r[1])
    /\ UNCHANGED <<holeVars, crashes>>
    /\ UNCHANGED <<NOW_ID, chan, remote, stored, queue, unfinished, cpc, citem,
                   readEv, readsSinceGet, lastFail>>

\* faulty variant: progress[source] assigned before the await of queue.put
ReadReturn_AssignsFirst ==
    /\ ppc = "read"
    /\ LET c == snap[idx][1]
           last_id == snap[idx][2]
       IN /\ last_id # PyNone
          /\ chan[c] = "ok"
          /\ LET events == Read(c, last_id)
                 new_id == IF events = {} THEN NOW_ID ELSE GetLastId(events)
                 item == [source |-> c, events |-> events, last_id |-> new_id]
                 d == done \/ events = {}
             IN /\ readEv' = [readEv EXCEPT ![c] = @ \cup events]
                /\ readsSinceGet' = readsSinceGet + 1
                /\ lastFail' = [lastFail EXCEPT ![c] = NoFail]
                /\ roundKind' = IF events = {} THEN roundKind ELSE "mixed"
                /\ IF QueueFull(queue)
                   THEN /\ ppc' = "put"
                        /\ pending' = item
                        /\ done' = d
                        /\ progress' = DictSet(progress, c, new_id)
                        /\ UNCHANGED <<queue, unfinished, snap, idx, delay>>
                   ELSE /\ Put(item)
                        /\ progress' = DictSet(progress, c, new_id)
                        /\ EndIteration(d)
    /\ UNCHANGED <<holeVars, crashes>>
    /\ UNCHANGED <<NOW_ID, chan, remote, crawl, stored, cpc, citem>>

\* read returns: None or a page; the item is put and progress assigned, or
\* the producer is suspended in queue.put
ReadReturn ==
    /\ ppc = "read"
    /\ LET c == snap[idx][1]
           last_id == snap[idx][2]
       IN /\ last_id # PyNone
          /\ chan[c] = "ok"
          /\ LET events == Read(c, last_id)
                 new_id == IF events = {} THEN NOW_ID ELSE GetLastId(events)
                 item == [source |-> c, events |-> events, last_id |-> new_id]
                 d == done \/ events = {}
             IN /\ readEv' = [readEv EXCEPT ![c] = @ \cup events]
                /\ readsSinceGet' = readsSinceGet + 1
                /\ lastFail' = [lastFail EXCEPT ![c] = NoFail]
                /\ roundKind' = IF events = {} THEN roundKind ELSE "mixed"
                /\ IF QueueFull(queue)
                   THEN /\ ppc' = "put"
                        /\ pending' = item
                        /\ done' = d
                        /\ UNCHANGED <<queue, unfinished, progress, snap, idx, delay>>
                   ELSE /\ Put(item)
                        /\ progress' = DictSet(progress, c, new_id)
                        /\ EndIteration(d)
    /\ UNCHANGED <<holeVars, crashes>>
    /\ UNCHANGED <<NOW_ID, chan, remote, crawl, stored, cpc, citem>>

\* faulty variant: the try around the whole for loop: a read that raises ends the
\* round
ReadFail_EndsRound ==
    /\ ppc = "read"
    /\ lastFail' = [lastFail EXCEPT ![snap[idx][1]] = NoFail]
    /\ roundKind' = "mixed"
    /\ ppc' = "sleep" /\ idx' = 0 /\ snap' = <<>> /\ done' = FALSE
    /\ pending' = NoItem
    /\ delay' = IF done THEN "long" ELSE "yield"
    /\ UNCHANGED <<holeVars, crashes>>
    /\ UNCHANGED <<NOW_ID, chan, remote, crawl, stored, progress, queue,
                   unfinished, cpc, citem, readEv, readsSinceGet>>

\* read raises (snowflake_time(None), or the request fails): logged, next pair
ReadFail ==
    /\ ppc = "read"
    /\ LET c == snap[idx][1]
           last_id == snap[idx][2]
       IN lastFail' = [lastFail EXCEPT ![c] =
                          IF Has(progress, c) /\ Get(progress, c) = last_id
                          THEN last_id ELSE NoFail]
    /\ roundKind' = "mixed"
    /\ EndIteration(done)
    /\ UNCHANGED <<holeVars, crashes>>
    /\ UNCHANGED <<NOW_ID, chan, remote, crawl, stored, progress, queue,
                   unfinished, cpc, citem, readEv, readsSinceGet>>

\* the suspended queue.put goes on once the queue has room
PutResume ==
    /\ ppc = "put"
    /\ ~QueueFull(queue)
    /\ Put(pending)
    /\ progress' = DictSet(progress, pending.source, pending.last_id)
    /\ EndIteration(done)
    /\ UNCHANGED <<holeVars, crashes, roundKind>>
    /\ UNCHANGED <<NOW_ID, chan, remote, crawl, stored, cpc, citem, readEv,
                   readsSinceGet, lastFail>>

\* asyncio.sleep(delay) is over: the next round
WakeUp ==
    /\ ppc = "sleep"
    /\ StartRound(progress)
    /\ UNCHANGED <<holeVars, crashes>>
    /\ UNCHANGED <<NOW_ID, chan, remote, crawl, stored, progress, queue,
                   unfinished, cpc, citem, readEv, readsSinceGet, lastFail>>

(* ---- AbstractCrawler.consumer ---- *)
\* faulty variant: a LifoQueue: get returns the item put last
ConsumerGet_Lifo ==
    /\ cpc = "get"
    /\ queue # <<>>
    /\ citem' = queue[Len(queue)]
    /\ queue' = SubSeq(queue, 1, Len(queue) - 1)
    /\ cpc' = "trans"
    /\ readsSinceGet' = 0
    /\ UNCHANGED <<holeVars, crashes, roundKind>>
    /\ UNCHANGED <<NOW_ID, chan, remote, crawl, stored, progress, unfinished,
                   ppc, snap, idx, done, pending, delay, readEv, lastFail>>

\* queue.get and the opening of the transaction
ConsumerGet ==
    /\ cpc = "get"
    /\ queue # <<>>
    /\ citem' = Head(queue)
    /\ queue' = Tail(queue)
    /\ cpc' = "trans"
    /\ readsSinceGet' = 0
    /\ UNCHANGED <<holeVars, crashes, roundKind>>
    /\ UNCHANGED <<NOW_ID, chan, remote, crawl, stored, progress, unfinished,
                   ppc, snap, idx, done, pending, delay, readEv, lastFail>>

\* write (when there are events) and update, the commit, task_done
ConsumerCommit ==
    /\ cpc = "trans"
    /\ stored' = IF citem.events # {}
                 THEN InsertMessages(stored, citem.source, citem.events)
                 ELSE stored
    /\ crawl' = UpdateCrawl(crawl, citem.source, citem.last_id)
    /\ unfinished' = unfinished - 1
    /\ cpc' = "get"
    /\ citem' = NoItem
    /\ UNCHANGED <<holeVars, crashes, roundKind>>
    /\ UNCHANGED <<NOW_ID, chan, remote, progress, queue, ppc, snap, idx, done,
                   pending, delay, readEv, readsSinceGet, lastFail>>

\* faulty variant: write outside the transaction scope: the page stays written when
\* update raises
ConsumerFail_KeepsPage ==
    /\ cpc = "trans"
    /\ citem.events # {}
    /\ stored' = InsertMessages(stored, citem.source, citem.events)
    /\ crawl' = crawl
    /\ unfinished' = unfinished - 1
    /\ cpc' = "get"
    /\ citem' = NoItem
    /\ UNCHANGED <<holeVars, crashes, roundKind>>
    /\ UNCHANGED <<NOW_ID, chan, remote, progress, queue, ppc, snap, idx, done,
                   pending, delay, readEv, readsSinceGet, lastFail>>

\* faulty variant: no try around the transaction: the exception of write or
\* update unwinds out of the while loop and ends the consumer task
ConsumerFail_Unwinds ==
    /\ cpc = "trans"
    /\ UNCHANGED storeVars
    /\ cpc' = "ended"
    /\ citem' = NoItem
    /\ UNCHANGED <<holeVars, crashes, roundKind>>
    /\ UNCHANGED <<NOW_ID, chan, remote, progress, queue, unfinished, ppc, snap,
                   idx, done, pending, delay, readEv, readsSinceGet, lastFail>>

\* write or update raises: the transaction is rolled back (whatever write
\* did inside it is undone), the error logged, task_done
ConsumerFail ==
    /\ cpc = "trans"
    /\ UNCHANGED storeVars
    /\ unfinished' = unfinished - 1
    /\ cpc' = "get"
    /\ citem' = NoItem
    /\ UNCHANGED <<holeVars, crashes, roundKind>>
    /\ UNCHANGED <<NOW_ID, chan, remote, progress, queue, ppc, snap, idx, done,
                   pending, delay, readEv, readsSinceGet, lastFail>>

(* ---- HistoryCrawler: the channel hooks ---- *)
\* after.id in self.progress: the keys are channels, never their ids
IdInProgress(p, c) == FALSE

\* _create_progress: the dict entry, then the insert in its own transaction
\* (which raises, and is rolled back, when the row is there)
CreateProgress(c) ==
    /\ progress' = DictSet(progress, c, PyNone)
    /\ crawl' = IF InsertRaises(crawl, c) THEN crawl ELSE InsertCrawl(crawl, c, 0)

\* _delete_progress
DeleteProgress(c) ==
    /\ progress' = DictPop(progress, c)
    /\ crawl' = DeleteCrawl(crawl, c)

\* _channel_create_hook
ChannelCreateHook(c, st) ==
    IF ~ChannelOk(st) \/ Has(progress, c)
    THEN UNCHANGED <<progress, crawl>>
    ELSE CreateProgress(c)

\* _channel_delete_hook
ChannelDeleteHook(c) == DeleteProgress(c)

\* _channel_update_hook
ChannelUpdateHook(c, before, after) ==
    IF ~ChannelOk(before)
    THEN UNCHANGED <<progress, crawl>>
    ELSE IF ChannelOk(after)
         THEN IF IdInProgress(progress, c)
              THEN UNCHANGED <<progress, crawl>>
              ELSE CreateProgress(c)
         ELSE DeleteProgress(c)

\* a hook that changes the dict entry of c ends the watch on c's failed read
Touch(c) ==
    lastFail' = IF progress' = progress THEN lastFail
                ELSE [lastFail EXCEPT ![c] = NoFail]

\* a text channel is created in a tracked guild
ChannelCreate(c, st) ==
    /\ chan[c] = "none"
    /\ chan' = [chan EXCEPT ![c] = st]
    /\ IF HooksSet THEN ChannelCreateHook(c, st) ELSE UNCHANGED <<progress, crawl>>
    /\ Touch(c)
    /\ UNCHANGED <<holeVars, crashes, roundKind>>
    /\ UNCHANGED <<NOW_ID, remote, stored, queue, unfinished, ppc, snap, idx,
                   done, pending, delay, cpc, citem, readEv, readsSinceGet>>

\* a text channel is deleted; "gone" when no hook saw it
ChannelDelete(c) ==
    /\ chan[c] \in {"ok", "hidden"}
    /\ chan' = [chan EXCEPT ![c] = IF HooksSet THEN "deleted" ELSE "gone"]
    /\ IF HooksSet THEN ChannelDeleteHook(c) ELSE UNCHANGED <<progress, crawl>>
    /\ Touch(c)
    /\ UNCHANGED <<holeVars, crashes, roundKind>>
    /\ UNCHANGED <<NOW_ID, remote, stored, queue, unfinished, ppc, snap, idx,
                   done, pending, delay, cpc, citem, readEv, readsSinceGet>>

\* a text channel is edited: its permissions may change
ChannelUpdate(c, after) ==
    /\ chan[c] \in {"ok", "hidden"}
    /\ chan' = [chan EXCEPT ![c] = after]
    /\ IF HooksSet THEN ChannelUpdateHook(c, chan[c], after)
       ELSE UNCHANGED <<progress, crawl>>
    /\ Touch(c)
    /\ UNCHANGED <<holeVars, crashes, roundKind>>
    /\ UNCHANGED <<NOW_ID, remote, stored, queue, unfinished, ppc, snap, idx,
                   done, pending, delay, cpc, citem, readEv, readsSinceGet>>

\* the step is a hook that gets as far as _create_progress or
\* _delete_progress, each of which opens a transaction of its own
HookTransaction ==
    /\ HooksSet
    /\ \/ \E c \in Dynamic : ChannelDelete(c)
       \/ \E c \in Dynamic, st \in {"ok", "hidden"} :
             ChannelCreate(c, st) /\ ChannelOk(st) /\ ~Has(progress, c)
       \/ \E c \in Dynamic, st \in {"ok", "hidden"} :
             ChannelUpdate(c, st) /\ ChannelOk(chan[c])

\* the consumer is suspended inside its transaction: write awaits the users
\* of a reaction of a message of the page
ConsumerInTransaction == cpc = "trans" /\ citem.events # {}

(* ---- the environment ---- *)
\* a message is posted: its ID is later than the import and than every
\* message of the channel
Arrive(c, e) ==
    /\ chan[c] \in {"ok", "hidden"}
    /\ e > NOW_ID
    /\ \A x \in remote[c] : x < e
    /\ remote' = [remote EXCEPT ![c] = @ \cup {e}]
    /\ UNCHANGED <<holeVars, crashes, roundKind>>
    /\ UNCHANGED <<NOW_ID, chan, crawl, stored, progress, queue, unfinished,
                   ppc, snap, idx, done, pending, delay, cpc, citem, readEv,
                   readsSinceGet, lastFail>>

\* the process dies and is started again: the module is imported (NOW_ID is
\* the time of the import, not before any message posted by then), the
\* crawler constructed; an open transaction is rolled back
Crash ==
    /\ crashes < MaxCrash
    /\ crashes' = crashes + 1
    /\ NOW_ID' = SetMax({NOW_ID} \cup UNION {remote[c] : c \in Sources})
    /\ progress' = <<>>
    /\ queue' = <<>>
    /\ unfinished' = 0
    /\ ppc' = "init" /\ snap' = <<>> /\ idx' = 0 /\ done' = FALSE
    /\ pending' = NoItem /\ delay' = "-"
    /\ cpc' = "get" /\ citem' = NoItem
    /\ readsSinceGet' = 0
    /\ lastFail' = [c \in Sources |-> NoFail]
    /\ roundKind' = "-"
    /\ UNCHANGED holeVars
    /\ UNCHANGED <<chan, remote, crawl, stored, readEv>>

(* ---- the specification ---- *)
\* after construction: an empty dict and queue, an empty store; the channels
\* that exist hold messages older than the import
\* AbstractCrawler.__init__: an empty dict and queue, no coroutine started
Constructed ==
    /\ progress = <<>>
    /\ queue = <<>>
    /\ unfinished = 0
    /\ ppc = "init" /\ snap = <<>> /\ idx = 0 /\ done = FALSE
    /\ pending = NoItem /\ delay = "-"
    /\ cpc = "get" /\ citem = NoItem
    /\ readEv = [c \in Sources |-> {}]
    /\ readsSinceGet = 0
    /\ lastFail = [c \in Sources |-> NoFail]
    /\ roundKind = "-"
    /\ crashes = 0

Init ==
    /\ NOW_ID = StartNow
    /\ chan \in [Sources -> {"none", "ok", "hidden"}]
    /\ \A c \in Sources \ Dynamic : chan[c] = "ok"
    /\ remote \in [Sources -> SUBSET {e \in Ids : e < StartNow}]
    /\ \A c \in Sources : chan[c] = "none" \/ c \notin Posting => remote[c] = {}
    /\ crawl = [c \in Sources |-> PyNone]
    /\ stored = [c \in Sources |-> {}]
    /\ Constructed
    /\ ranges = <<>> /\ first = PyNone /\ start = 0 /\ hole = NotRun

Next ==
    \/ ProducerInit
    \/ ReadReturn
    \/ ReadFail
    \/ PutResume
    \/ WakeUp
    \/ ConsumerGet
    \/ ConsumerCommit
    \/ ConsumerFail
    \/ \E c \in Dynamic, st \in {"ok", "hidden"} : ChannelCreate(c, st)
    \/ \E c \in Dynamic : ChannelDelete(c)
    \/ \E c \in Dynamic, st \in {"ok", "hidden"} : ChannelUpdate(c, st)
    \/ \E c \in Posting, e \in Ids : Arrive(c, e)

\* one run of the process
Spec == Init /\ [][Next]_vars

NextRestart ==
    \/ Next
    \/ Crash

\* the process, restarted whenever it dies
RestartSpec == Init /\ [][NextRestart]_vars

\* the crawler with no channel created, edited or deleted while it runs
LiveNext ==
    \/ ProducerInit
    \/ ReadReturn
    \/ ReadFail
    \/ PutResume
    \/ WakeUp
    \/ ConsumerGet
    \/ ConsumerCommit
    \/ ConsumerFail
    \/ \E c \in Posting, e \in Ids : Arrive(c, e)
    \/ Crash

\* the event loop runs every coroutine that can go on; the read of a source
\* that is tried again and again returns in the end, and so does the
\* transaction of a page and the transaction of a bare cursor
FairSpec ==
    /\ Init
    /\ [][LiveNext]_vars
    /\ WF_vars(ProducerInit)
    /\ WF_vars(PutResume)
    /\ WF_vars(WakeUp)
    /\ WF_vars(ConsumerGet)
    /\ WF_vars(ReadReturn \/ ReadFail)
    /\ WF_vars(ConsumerCommit \/ ConsumerFail)
    /\ \A c \in Sources : SF_vars(ReadReturn /\ snap[idx][1] = c)
    /\ SF_vars(ConsumerCommit /\ citem.events # {})
    /\ SF_vars(ConsumerCommit /\ citem.events = {})

\* the crawler while no channel is created, edited or deleted
SteadyNext ==
    \/ ProducerInit
    \/ ReadReturn
    \/ ReadFail
    \/ PutResume
    \/ WakeUp
    \/ ConsumerGet
    \/ ConsumerCommit
    \/ ConsumerFail
    \/ \E c \in Posting, e \in Ids : Arrive(c, e)

\* one run of the process, the event loop running every coroutine that can
\* go on: a read returns or raises, a transaction commits or raises
SteadyFairSpec ==
    /\ Init
    /\ [][SteadyNext]_vars
    /\ WF_vars(ProducerInit)
    /\ WF_vars(ReadReturn \/ ReadFail)
    /\ WF_vars(PutResume)
    /\ WF_vars(WakeUp)
    /\ WF_vars(ConsumerGet)
    /\ WF_vars(ConsumerCommit \/ ConsumerFail)

(* ---- MessageHistory ---- *)
\* Range.min(), Range.max() of a range <<min, max>>
RangeMin(r) == r[1]
RangeMax(r) == r[2]

Min2(x, y) == IF x <= y THEN x ELSE y
Points == 0..MaxPoint

RECURSIVE Walk_NoBreak(_, _, _, _)
\* faulty variant: the for loop without its break
Walk_NoBreak(rs, i, st, current) ==
    IF i = 0 THEN current
    ELSE Walk_NoBreak(rs, i - 1, st, RangeMin(rs[i]))

RECURSIVE Walk(_, _, _, _)
\* the for loop of find_first_hole over reversed(self.ranges), at rs[i]
Walk(rs, i, st, current) ==
    IF i = 0 THEN current
    ELSE IF st > RangeMax(rs[i]) THEN current
         ELSE Walk(rs, i - 1, st, RangeMin(rs[i]))

\* faulty variant: no hole when first is unset
FindFirstHole_UnsetIsNone(rs, f, st) ==
    LET current == Walk(rs, Len(rs), st, st)
    IN IF f # PyNone /\ f < current THEN Min2(st, current) ELSE PyNone

\* MessageHistory.find_first_hole, PyNone for None
FindFirstHole(rs, f, st) ==
    LET current == Walk(rs, Len(rs), st, st)
    IN IF f = PyNone \/ f < current THEN Min2(st, current) ELSE PyNone

\* MultiRange keeps its ranges sorted, disjoint and not adjacent
IsMultiRange(rs) ==
    /\ \A i \in 1..Len(rs) : RangeMin(rs[i]) <= RangeMax(rs[i])
    /\ \A i \in 1..(Len(rs) - 1) : RangeMax(rs[i]) + 1 < RangeMin(rs[i + 1])

\* a call of find_first_hole
FindFirstHoleCall ==
    /\ hole = NotRun
    /\ hole' = FindFirstHole(ranges, first, start)
    /\ UNCHANGED <<ranges, first, start, crashes, crawlerVars>>

\* a MessageHistory as constructed, and the argument of the call
HoleInit ==
    /\ ranges \in UNION {[1..n -> Points \X Points] : n \in 0..MaxRanges}
    /\ IsMultiRange(ranges)
    /\ first \in Points \cup {PyNone}
    /\ start \in Points
    /\ hole = NotRun
    /\ NOW_ID = StartNow
    /\ chan = [c \in Sources |-> "none"]
    /\ remote = [c \in Sources |-> {}]
    /\ crawl = [c \in Sources |-> PyNone]
    /\ stored = [c \in Sources |-> {}]
    /\ Constructed

HoleNext == FindFirstHoleCall

HoleSpec == HoleInit /\ [][HoleNext]_vars

(* ======================= the claims ======================= *)

\* C1: for every source the cursor persisted in the store never decreases:
\* no committed update(source, c2) follows a committed update(source, c1)
\* with c2 < c1, whether the cursors come from pages or from NOW_ID.
C1_CursorNonDecreasing ==
    [][\A c \in Sources :
          (crawl[c] # PyNone /\ crawl'[c] # PyNone) => crawl'[c] >= crawl[c]]_vars

\* C2: no source has a persisted cursor strictly greater than the ID of an
\* event of that source that the producer has read and that is absent from
\* the store.
C2_NoCursorPastUnwritten ==
    \A c \in Sources : \A e \in readEv[c] :
        ~(crawl[c] # PyNone /\ crawl[c] > e /\ e \notin stored[c])

\* C3: every event a read has returned is in the end present in the store,
\* whatever crashes and restarts happen on the way.
C3_ReadEventuallyStored ==
    \A c \in Sources : \A e \in Ids :
        (e \in readEv[c]) ~> (e \in stored[c])

\* C4 (as claimed): with queue capacity N, once the consumer stops
\* dequeuing the producer completes at most N further successful reads
\* before it is suspended in queue.put.
C4_AtMostNReads == readsSinceGet <= QueueSize

\* C4 (amended): once the consumer stops dequeuing the producer completes
\* at most N + 1 further successful reads: the items of at most N are put,
\* the one after the N-th leaves the producer suspended in queue.put on a
\* full queue, and a suspended producer reads no more.
C4_AtMostNPlusOneReads ==
    /\ readsSinceGet <= QueueSize + 1
    /\ Len(queue) <= QueueSize
    /\ readsSinceGet = QueueSize + 1 => ppc = "put" /\ Len(queue) = QueueSize

\* C4 (witness): the consumer has not dequeued, N + 1 reads have returned
\* and the producer is suspended in queue.put.
C4_Witness ==
    /\ readsSinceGet = QueueSize + 1
    /\ ppc = "put"
    /\ Len(queue) = QueueSize

\* C5: once the deletion hook has run for a source, the source has no
\* persisted cursor row and is absent from the progress mapping at the start
\* of every later producer round, wherever in its round the producer was
\* when the hook ran.
C5_DeletedStaysOut ==
    [][\A c \in Sources :
          chan'[c] = "deleted" =>
              /\ crawl'[c] = PyNone
              /\ (ppc = "sleep" /\ ppc' = "read") => ~Has(snap', c)]_vars

\* C6: when the creation hook runs for an eligible channel that is not yet
\* tracked, the channel's progress entry is created with cursor 0 and a
\* store row with cursor 0 is inserted; when the channel is ineligible or
\* already tracked, mapping and store are left as they are.
C6_CreatedAtZero ==
    [][\A c \in Sources :
          (chan[c] = "none" /\ chan'[c] # "none" /\ HooksSet) =>
              IF ChannelOk(chan'[c]) /\ ~Has(progress, c)
              THEN /\ Has(progress', c)
                   /\ Get(progress', c) = 0
                   /\ crawl'[c] = 0
              ELSE UNCHANGED <<progress, crawl>>]_vars

\* the boundary of find_first_hole(st): st when no range has its maximum at
\* or after st, else the minimum of the oldest range that has
Boundary(rs, st) ==
    LET S == {i \in 1..Len(rs) : RangeMax(rs[i]) >= st}
    IN IF S = {} THEN st ELSE RangeMin(rs[SetMin(S)])

\* C7 (as claimed): find_first_hole(start) returns None whenever first is
\* unset, and when first is set and first >= the boundary of the walk;
\* otherwise it returns min(start, boundary).
C7_NoneWhenFirstUnset ==
    hole # NotRun =>
        hole = IF first = PyNone \/ first >= Boundary(ranges, start)
               THEN PyNone
               ELSE Min2(start, Boundary(ranges, start))

\* C7 (amended): find_first_hole(start) returns None exactly when first is
\* set and first >= the boundary of the walk; when first is unset, and when
\* first < boundary, it returns min(start, boundary).
C7_NoneOnlyWhenFirstReached ==
    hole # NotRun =>
        hole = IF first # PyNone /\ first >= Boundary(ranges, start)
               THEN PyNone
               ELSE Min2(start, Boundary(ranges, start))

\* C7 (witness): first unset, a range that reaches start, and the call has
\* returned the minimum of that range.
C7_Witness ==
    /\ first = PyNone
    /\ Len(ranges) = 1
    /\ RangeMin(ranges[1]) < start /\ start <= RangeMax(ranges[1])
    /\ hole = RangeMin(ranges[1])

\* C8: when read raises for source S in a round, nothing is put on the queue
\* for S, progress is unchanged, the loop goes on to the next pair of the
\* same snapshot, and the next read of S (no hook having changed S's entry)
\* is called with the cursor of the failed call.
C8_ReadFailureContained ==
    /\ [](ppc = "read" =>
            LET c == snap[idx][1]
            IN lastFail[c] # NoFail => snap[idx][2] = lastFail[c])
    /\ [][ReadFail =>
            /\ queue' = queue
            /\ unfinished' = unfinished
            /\ progress' = progress
            /\ idx < Len(snap) =>
                  ppc' = "read" /\ idx' = idx + 1 /\ snap' = snap]_vars

\* C8 (witness): the read of a at an integer cursor has raised in the last
\* round, b has been read since, and a is being read again at that cursor.
C8_Witness ==
    /\ ppc = "read"
    /\ Len(snap) = 2
    /\ idx = 1
    /\ snap[1][1] = "a"
    /\ lastFail["a"] = snap[1][2]
    /\ lastFail["a"] >= 0
    /\ Has(progress, "b") /\ Get(progress, "b") = NOW_ID

InFlight(ci, q, pd) ==
    (IF ci = NoItem THEN <<>> ELSE <<ci>>) \o q \o
    (IF pd = NoItem THEN <<>> ELSE <<pd>>)

\* C10: the items in flight change only by a completed read appending its
\* item at the end or by the transaction of the oldest item ending; the
\* consumer's transaction writes the page and cursor of the oldest item.
\* So items meet their transaction in the order their reads completed.
C10_Fifo ==
    [][LET F == InFlight(citem, queue, pending)
           G == InFlight(citem', queue', pending')
       IN  \/ G = F
           \/ /\ ppc = "read"
              /\ \E ev \in SUBSET Ids : \E id \in 0..MaxId :
                    G = Append(F, [source |-> snap[idx][1], events |-> ev,
                                   last_id |-> id])
           \/ /\ cpc = "trans"
              /\ F # <<>>
              /\ G = Tail(F)
              /\ stored' # stored =>
                    stored' = InsertMessages(stored, Head(F).source,
                                             Head(F).events)
              /\ crawl' # crawl =>
                    crawl' = UpdateCrawl(crawl, Head(F).source,
                                         Head(F).last_id)]_vars

\* C10 (witness): two items of a with different cursors are in flight, the
\* older one in its transaction and the newer one still on the queue behind
\* the item of b.
C10_Witness ==
    /\ cpc = "trans"
    /\ citem.source = "a"
    /\ Len(queue) = 2
    /\ queue[1].source = "b"
    /\ queue[2].source = "a"
    /\ citem.last_id < queue[2].last_id

\* C11: after init the producer is always at one of the awaits of its while
\* loop and the consumer at one of its own, whatever read, write or update
\* raised; and with the event loop running both (weak fairness) an item on
\* the queue is in the end got by the consumer, a transaction in the end is
\* over with task_done called, and a producer suspended in queue.put in the
\* end goes on.
C11_LoopsNeverEnd ==
    /\ [](ppc \in {"init", "read", "put", "sleep"} /\ cpc \in {"get", "trans"})
    /\ [][cpc = "trans" /\ cpc' # "trans" =>
              cpc' = "get" /\ unfinished' = unfinished - 1]_vars
    /\ \A c \in Sources : \A id \in 0..MaxId :
          (\E i \in 1..Len(queue) :
               queue[i].source = c /\ queue[i].last_id = id)
          ~> (cpc = "trans" /\ citem.source = c /\ citem.last_id = id)
    /\ (cpc = "trans") ~> (cpc = "get")
    /\ (ppc = "put") ~> (ppc # "put")

\* C11 (witness): a read of a has raised, the transaction of a's page has
\* raised (the page is neither stored nor in flight), and the producer is in
\* queue.put while the consumer is in a transaction.
C11_Witness ==
    /\ lastFail["a"] # NoFail
    /\ readEv["a"] # {}
    /\ stored["a"] = {}
    /\ \A i \in 1..Len(queue) : queue[i].events = {}
    /\ ppc = "put" /\ pending.events = {}
    /\ cpc = "trans" /\ citem.events = {}

\* C12: after a round over a non-empty snapshot the producer sleeps the long
\* delay if and only if every read of the round returned None; a round in
\* which some read returned a page or raised sleeps the yield delay.
C12_LongDelayIffAllNone ==
    (ppc = "sleep" /\ roundKind \in {"allnone", "mixed"}) =>
        (delay = "long" <=> roundKind = "allnone")

RECURSIVE RefWalk(_, _, _)
\* the walk that tests each range against the boundary walked so far: from
\* rs[i] down, a range is absorbed unless its maximum is below the boundary
RefWalk(rs, i, current) ==
    IF i = 0 THEN current
    ELSE IF RangeMax(rs[i]) < current THEN current
         ELSE RefWalk(rs, i - 1, RangeMin(rs[i]))

\* C13: the boundary find_first_hole computes is that of the walk that
\* absorbs a range only while its maximum is not below the boundary walked
\* so far, and stops at the first range whose maximum is below it.
C13_WalkTestsBoundary ==
    hole # NotRun =>
        Walk(ranges, Len(ranges), start, start)
            = RefWalk(ranges, Len(ranges), start)

\* C13 (as the code walks): every range is tested against start, not
\* against the boundary walked so far: the boundary is the minimum of the
\* oldest range whose maximum is not below start, and start without one.
C13_WalkTestsStart ==
    hole # NotRun =>
        Walk(ranges, Len(ranges), start, start) = Boundary(ranges, start)

\* C13 (witness): start lies in the older of two ranges; find_first_hole has
\* walked over the newer one and returned the minimum of the older one.
C13_Witness ==
    /\ Len(ranges) = 2
    /\ RangeMin(ranges[1]) < start
    /\ start <= RangeMax(ranges[1])
    /\ first = PyNone
    /\ hole = RangeMin(ranges[1])

\* C14: at most one transaction of the crawler is open at any time: no hook
\* opens its transaction while the consumer is suspended inside its own.
C14_OneTransaction ==
    [][HookTransaction => ~ConsumerInTransaction]_vars

\* C15: the update hook adds a channel that was not eligible before and is
\* eligible after (dict entry and store row), removes one that was eligible
\* before and is not after (dict entry and store row), and leaves dict and
\* store alone for a tracked channel eligible before and after.
C15_UpdateHook ==
    [][\A c \in Dynamic : \A st \in {"ok", "hidden"} :
          (HooksSet /\ ChannelUpdate(c, st)) =>
             /\ (~ChannelOk(chan[c]) /\ ChannelOk(st)) =>
                   Has(progress', c) /\ crawl'[c] # PyNone
             /\ (ChannelOk(chan[c]) /\ ~ChannelOk(st)) =>
                   ~Has(progress', c) /\ crawl'[c] = PyNone
             /\ (ChannelOk(chan[c]) /\ ChannelOk(st) /\ Has(progress, c)) =>
                   UNCHANGED <<progress, crawl>>]_vars

C17_RoundReadsSnapshot ==
    /\ [][(ppc \in {"init", "sleep"} /\ ppc' = "read") =>
             snap' = progress' /\ idx' = 1]_vars
    /\ [][(ppc \in {"read", "put"} /\ ppc' \in {"read", "put"}) =>
             /\ snap' = snap
             /\ idx' \in {idx, idx + 1}
             /\ idx' <= Len(snap)]_vars
    /\ [][(ppc \in {"read", "put"} /\ ppc' = "sleep") => idx = Len(snap)]_vars
    /\ [][progress' # progress /\ ~(ReadReturn \/ PutResume \/ ProducerInit) =>
             UNCHANGED <<ppc, snap, idx, done, pending, queue>>]_vars
    /\ [](ppc \in {"read", "put"} => idx \in 1..Len(snap))

\* C17 (witness): the round started with b alone in the dict; a has been
\* added by a hook since and the round is still at its read of b.
C17_Witness ==
    /\ ppc = "read"
    /\ Len(snap) = 1
    /\ snap[1][1] = "b"
    /\ Has(progress, "a")
    /\ Has(progress, "b") /\ Get(progress, "b") = snap[1][2]

\* C18: when init is over, every readable channel has a row in the store
\* and a dict entry equal to the row's cursor: the cursor of the row that
\* was there before init, and 0 with a new row of cursor 0 when there was
\* none; no other row and no other dict entry is made or changed.
C18_InitSeedsFromStore ==
    [][ProducerInit =>
          \A c \in Sources :
             IF chan[c] = "ok"
             THEN /\ crawl'[c] = IF crawl[c] = PyNone THEN 0 ELSE crawl[c]
                  /\ Has(progress', c)
                  /\ Get(progress', c) = crawl'[c]
             ELSE /\ crawl'[c] = crawl[c]
                  /\ ~Has(progress', c)]_vars

\* C18 (witness): the process has been started a second time; init found a
\* row with a cursor above 0 for a and seeded the dict with it.
C18_Witness ==
    /\ crashes = 1
    /\ ppc = "read" /\ idx = 1
    /\ snap = progress
    /\ queue = <<>> /\ unfinished = 0
    /\ Has(progress, "a")
    /\ Get(progress, "a") > 0
    /\ Get(progress, "a") = crawl["a"]

\* C19: the queue never holds more than queue-size items; queue.put suspends
\* the producer only when the queue holds queue-size items, adds nothing
\* while it is suspended, and completes only once the queue holds fewer.
C19_QueueBounded ==
    /\ [](Len(queue) <= QueueSize)
    /\ []((ppc = "put" /\ Len(queue) = QueueSize) => ~ENABLED PutResume)
    /\ [][(ppc # "put" /\ ppc' = "put") =>
             Len(queue) = QueueSize /\ queue' = queue]_vars
    /\ [][(ppc = "put" /\ ppc' # "put") =>
             /\ Len(queue) < QueueSize
             /\ queue' = Append(queue, pending)]_vars

\* C19 (witness): the producer is suspended in queue.put and the consumer
\* has just got an item of the full queue.
C19_Witness ==
    /\ ppc = "put"
    /\ pending # NoItem
    /\ Len(queue) = QueueSize - 1
    /\ cpc = "trans"
    /\ unfinished = QueueSize

====
